---- MODULE Spec2Model ----
(***************************************************************************)
(* A model of the NDIAH / property_ai React frontend (App.tsx, lib/api.ts,  *)
(* the cards).  The component state of App is the record st; every async    *)
(* handler that is suspended at an await is a record in tasks and carries   *)
(* the values its closure captured from the render it was created in.  One  *)
(* action is one run-to-completion piece of JavaScript: a user event or    *)
(* the continuation after an await, followed by the effects React runs for  *)
(* the dependencies that changed.                                           *)
(*                                                                         *)
(* Left out of st: purely presentational state (toasts, progress bar,       *)
(* uploadMessage/uploadDetails/uploadOutput, timelineRenderSeed, apiBase).  *)
(***************************************************************************)
EXTENDS Integers, Sequences, FiniteSets, Bags, TLC

\* ------------------------------------------------------------------ bounds
MaxTasks == 2      \* async handlers suspended at an await at the same time
MaxUploadTasks == 1 \* the same, in the specifications of the upload card alone
NumProps == 2      \* properties the backend knows
MaxDocs == 1       \* documents a GET /documents response lists per property
MaxFiles == 2      \* files offered to one addFiles call
MaxZip == 1        \* processed resp. failed PDFs one ZIP response reports
MaxMsgs == 4       \* messages in chatHistory
MaxDelDocs == 3    \* documents listed when onDeleteAllDocuments starts
MaxChecks == 4     \* health checks counted after the page has loaded
MaxItems == 2      \* timeline items a response carries in the sorting specification

\* ------------------------------------------------------- program constants
MAX_FILE_SIZE == 20971520
maxAttempts == 12
defaultTimeoutMs == 15000

VARIABLES
  st,      \* App's component state (useState cells)
  tasks,   \* the async handlers suspended at an await (a bag of closures)
  gh,      \* history variables used to state the claims
  chat,    \* the chat cells of App and localStorage (the chat history cache)
  tl,      \* the timeline list, its filter, and the groups handed to TimelineCard
  api,     \* one call of apiCall (lib/api.ts): its timer, signals and outcome
  del,     \* the document list, the server's documents and onDeleteAllDocuments
  hc       \* the health checks and the cold-start banner

vars == <<st, tasks, gh, chat, tl, api, del, hc>>

Props == 1..NumProps
NoUser == 0        \* currentUser === null
NoProp == 0        \* activePropertyId === null

\* --------------------------------------------------------- server replies
\* Outcome of one request: resolved, rejected with HTTP 401, rejected otherwise.
Outcomes == {"ok", "e401", "e500"}

\* normalizeApiError(e, fallback): the message shown for a rejected request.
normalizeApiError(outcome) ==
  IF outcome = "e401" THEN "HTTP 401" ELSE "HTTP 500"

\* The documents GET /documents?property_id=p lists: n documents of property p.
DocsOf(p, n) == {<<p, k>> : k \in 1..n}

\* The items GET /timeline?property_id=p returns, and those of POST /timeline/extract.
TimelineOf(p) == <<[source |-> "store", property_id |-> p]>>
RawItems == <<[source |-> "raw", property_id |-> NoProp]>>

\* The raw texts the user can have in the textarea; trim() empties the blank one.
Inputs == {"", "Frist 1.3."}
Blank == {""}

\* ------------------------------------------------------------------ files
\* A File: its name (stem and extension as typed), its MIME type, its size.
Exts == {"PDF", "txt"}
Types == {"application/zip", "text/plain"}
Sizes == {MAX_FILE_SIZE, MAX_FILE_SIZE + 1}
Files == [name : [stem : {"a"}, ext : Exts], type : Types, size : Sizes]

\* String.prototype.toLowerCase on an extension.
toLowerCase(ext) ==
  IF ext = "PDF" THEN "pdf" ELSE IF ext = "ZIP" THEN "zip" ELSE ext

\* A test that forgets the size limit (faulty variant: with it C9 admits a file
\* of more than 20 MB).
validateFile_anySize(file) ==
  IF file.type \in {"application/pdf", "application/zip", "application/x-zip-compressed"}
     \/ toLowerCase(file.name.ext) \in {"pdf", "zip"}
  THEN "ok" ELSE "nur PDF- oder ZIP-Dateien sind erlaubt."

\* The test validateFiles makes on one file: "ok", or why it is rejected.
validateFile(file) ==
  LET isPdfType == file.type = "application/pdf"
      hasPdfExt == toLowerCase(file.name.ext) = "pdf"
      isZipType == file.type \in {"application/zip", "application/x-zip-compressed"}
      hasZipExt == toLowerCase(file.name.ext) = "zip"
  IN IF (~isPdfType /\ ~hasPdfExt) /\ (~isZipType /\ ~hasZipExt)
     THEN "nur PDF- oder ZIP-Dateien sind erlaubt."
     ELSE IF file.size > MAX_FILE_SIZE
     THEN "Datei ist groesser als 20 MB."
     ELSE "ok"

\* validateFiles: the accepted files and one message per rejected file, in order.
RECURSIVE validateFiles(_)
validateFiles(files) ==
  IF files = <<>> THEN [valid |-> <<>>, errors |-> <<>>]
  ELSE LET r == validateFiles(Tail(files))
           v == validateFile(Head(files))
       IN IF v = "ok"
          THEN [r EXCEPT !.valid = <<Head(files)>> \o @]
          ELSE [r EXCEPT !.errors = <<[name |-> Head(files).name, text |-> v]>> \o @]

\* The key `${f.name}:${f.size}` of the Map in addFiles.
FileKey(f) == <<f.name, f.size>>

\* map.set(key, file) on the Map's values in insertion order.
RECURSIVE MapSet(_, _)
MapSet(values, file) ==
  IF values = <<>> THEN <<file>>
  ELSE IF FileKey(Head(values)) = FileKey(file) THEN <<file>> \o Tail(values)
  ELSE <<Head(values)>> \o MapSet(Tail(values), file)

\* The updater addFiles passes to setSelectedFiles.
RECURSIVE MergeFiles(_, _)
MergeFiles(prev, valid) ==
  IF valid = <<>> THEN prev
  ELSE MergeFiles(MapSet(prev, Head(valid)), Tail(valid))

\* addFiles(files).
addFiles(w, files) ==
  LET r == validateFiles(files)
      info == IF Len(r.valid) > 0 THEN <<[added |-> Len(r.valid)]>> ELSE <<>>
  IN [w EXCEPT !.st.selectedFiles = MergeFiles(@, r.valid),
               !.st.uploadErrors = r.errors \o info,
               !.st.uploadState = IF Len(r.errors) > 0 THEN "error" ELSE "idle"]

\* ------------------------------------------------------------------ state
InitState ==
  [ currentUser |-> NoUser,
    properties |-> {},
    activePropertyId |-> NoProp,
    authPending |-> FALSE,
    documents |-> {},
    timelineItems |-> <<>>,
    timelineState |-> "idle",
    timelineMessage |-> "Bereit",
    timelineDetails |-> "Rohtext einfuegen und Termine extrahieren.",
    timelineInput |-> "",
    lastTimelineAction |-> "null",
    uploadState |-> "idle",
    uploadPending |-> FALSE,
    selectedFiles |-> <<>>,
    uploadErrors |-> <<>> ]

\* A handler's closure: op is the handler, pc the await it is suspended at, the
\* rest what it captured from its render and its local variables.
NoTask ==
  [ op |-> "none", pc |-> "idle",
    user |-> NoUser, prop |-> NoProp, ndocs |-> 0, files |-> <<>>, input |-> "",
    fromUpload |-> FALSE, i |-> 0,
    uploadedDocuments |-> 0, failedItems |-> 0, queuedJobs |-> 0,
    attempt |-> 0, latest |-> FALSE ]

\* The values a handler created in the render of state s closes over.
Closure(s, op) ==
  [ NoTask EXCEPT !.op = op, !.pc = "run",
      !.user = s.currentUser, !.prop = s.activePropertyId,
      !.ndocs = Cardinality(s.documents), !.files = s.selectedFiles,
      !.input = s.timelineInput ]

NoLoad == [src |-> -1, status |-> "none"]

\* lastLoad: the request issued last among those whose response is written to
\*   timelineItems, and how it settled; lastAction: the kind of the timeline
\*   function that last got past its guards; lastStarted: the kind of the
\*   timeline request handed to apiFetch last; event: what the last step was;
\*   offered: the files handed to addFiles in the last step;
\*   cap: how many handlers the specification lets wait at the same time;
\*   loggedOut: logout has completed and no sign-in was started since.
InitGhost ==
  [lastLoad |-> NoLoad, lastAction |-> "null", lastStarted |-> "null", event |-> "none",
   offered |-> <<>>, failedItems |-> 0, cap |-> MaxTasks, loggedOut |-> FALSE]

\* The world an action transforms: cur is the handler that is running, ovf is
\* set when more than MaxTasks handlers would be suspended (the action is then
\* not taken).
World ==
  [st |-> st, tasks |-> tasks,
   gh |-> [gh EXCEPT !.event = "none", !.offered = <<>>, !.failedItems = 0],
   cur |-> NoTask, ovf |-> FALSE]

AllSettled == tasks = EmptyBag

AddTask(w, t) ==
  IF BagCardinality(w.tasks) < w.gh.cap
  THEN [w EXCEPT !.tasks = @ (+) SetToBag({t})]
  ELSE [w EXCEPT !.ovf = TRUE]

\* The running handler reaches an await.  timelineInput and selectedFiles are
\* read before the first await only (selectedFiles: before the last upload).
Suspend(w, pc) ==
  AddTask([w EXCEPT !.cur = NoTask],
          [w.cur EXCEPT !.pc = pc, !.input = "",
                        !.files = IF pc = "file" THEN @ ELSE <<>>])

\* The running handler returns.
Finish(w) == [w EXCEPT !.cur = NoTask]

\* The world in which the suspended handler t resumes.
Resume(t) == [World EXCEPT !.tasks = tasks (-) SetToBag({t}), !.cur = t]

Suspended(pc) == {t \in BagToSet(tasks) : t.pc = pc}

\* ------------------------------------------------- history (ghost) updates
Unlatest(b) ==
  LET S == BagToSet(b)
      T == {[t EXCEPT !.latest = FALSE] : t \in S}
      N(u) == (IF u \in S THEN b[u] ELSE 0)
              + (IF [u EXCEPT !.latest = TRUE] \in S THEN b[[u EXCEPT !.latest = TRUE]] ELSE 0)
  IN [u \in T |-> N(u)]

\* The running handler issues a request whose response it will write to timelineItems.
IssueLoad(w, src) ==
  [w EXCEPT !.tasks = Unlatest(@), !.cur.latest = TRUE,
            !.gh.lastLoad = [src |-> src, status |-> "pending"]]

\* The request of the running handler has settled.
SettleLoad(w, status) ==
  IF w.cur.latest
  THEN [w EXCEPT !.gh.lastLoad.status = status, !.cur.latest = FALSE]
  ELSE w

\* timelineItems is emptied by something that is not a response.
ClearLoad(w) ==
  [w EXCEPT !.tasks = Unlatest(@), !.cur.latest = FALSE, !.gh.lastLoad = NoLoad]

\* ------------------------------------------------------------ setTimeline*
setTimelineStatus(w, state, message, details) ==
  [w EXCEPT !.st.timelineState = state,
            !.st.timelineMessage = message,
            !.st.timelineDetails = details]

\* A setLastTimelineAction that keeps the old value (faulty variant: with it the
\* retry button of C10 repeats a stale action).
setLastTimelineAction_noop(w, kind) == w

setLastTimelineAction(w, kind) == [w EXCEPT !.st.lastTimelineAction = kind]

\* A timeline function got past its guards and starts its work (history only).
StartAction(w, kind) == [w EXCEPT !.gh.lastAction = kind]

\* The running handler hands a timeline request to apiFetch.
StartRequest(w, kind, pc) ==
  Suspend([w EXCEPT !.gh.lastStarted = kind], pc)

\* A catch block that also empties the list (faulty variant: with it a failed
\* request of C2 wipes the displayed items).
timelineCatch_clearing(w, outcome) ==
  setTimelineStatus([w EXCEPT !.st.timelineItems = <<>>], "error",
                    "Timeline laden fehlgeschlagen", normalizeApiError(outcome))

\* The catch blocks of extractTimeline, loadTimelineFromStore and rebuildTimeline.
timelineCatch(w, outcome) ==
  LET t == w.cur
      msg == normalizeApiError(outcome)
  IN IF t.pc = "tl_extract"
     THEN setTimelineStatus(w, "error", "Extraktion fehlgeschlagen", msg)
     ELSE IF t.pc = "tl_get"
     THEN setTimelineStatus(w, "error", "Timeline laden fehlgeschlagen", msg)
     ELSE IF t.fromUpload
     THEN w
     ELSE setTimelineStatus(w, "error", "Timeline-Aktualisierung fehlgeschlagen", msg)

\* A timeline request of the running handler rejects: the catch block runs.
Rejected(w, outcome) ==
  SettleLoad([timelineCatch(w, outcome) EXCEPT !.gh.event = "rejected"], "fail")

\* What the caller of a timeline function does once that call has returned.
AfterTimelineCall(w) ==
  IF w.cur.op = "upload"
  THEN IF w.cur.queuedJobs > 0
       THEN Suspend([w EXCEPT !.cur.op = "poll", !.cur.fromUpload = FALSE,
                              !.cur.attempt = 1], "poll")
       ELSE Finish(w)
  ELSE IF w.cur.op = "poll"
  THEN Finish([w EXCEPT !.gh.event = "pollStopped"])
  ELSE Finish(w)

\* extractTimeline up to its await.
extractTimeline(w) ==
  IF w.cur.input \in Blank
  THEN Finish([w EXCEPT !.st.timelineState = "error", !.st.timelineMessage = "Kein Text"])
  ELSE LET w1 == setLastTimelineAction(StartAction(w, "raw"), "raw")
           w2 == [w1 EXCEPT !.st.timelineState = "loading",
                            !.st.timelineMessage = "Extraktion laeuft..."]
       IN StartRequest(IssueLoad(w2, NoProp), "raw", "tl_extract")

\* extractTimeline after its await.
extractTimelineSettled(w, outcome) ==
  IF outcome = "ok"
  THEN LET items == RawItems
           w1 == [w EXCEPT !.st.timelineItems = items]
           w2 == setTimelineStatus(w1, "success", "Timeline extrahiert", "Eintraege gefunden.")
       IN Finish(SettleLoad(w2, "ok"))
  ELSE Finish(Rejected(w, outcome))

\* loadTimelineFromStore(false) up to its await.
loadTimelineFromStore(w) ==
  IF w.cur.prop = NoProp
  THEN AfterTimelineCall(
         setTimelineStatus(w, "error", "Keine Property gewaehlt",
                           "Bitte zuerst eine Property auswaehlen."))
  ELSE LET w1 == setLastTimelineAction(StartAction(w, "load"), "load")
           w2 == setTimelineStatus(w1, "loading", "Lade gespeicherte Timeline...",
                                   "Dokument(e) im Bestand.")
       IN StartRequest(IssueLoad(w2, w.cur.prop), "load", "tl_get")

\* loadTimelineFromStore after its await.
loadTimelineFromStoreSettled(w, outcome) ==
  IF outcome = "ok"
  THEN LET items == TimelineOf(w.cur.prop)
           w1 == [w EXCEPT !.st.timelineItems = items]
           w2 == setTimelineStatus(w1, "success", "Timeline geladen",
                                   "Eintraege aus persistierter Timeline.")
       IN AfterTimelineCall(SettleLoad(w2, "ok"))
  ELSE AfterTimelineCall(Rejected(w, outcome))

\* rebuildTimeline(fromUpload) up to its first await.
rebuildTimeline(w, fromUpload) ==
  IF w.cur.prop = NoProp
  THEN AfterTimelineCall(
         setTimelineStatus(w, "error", "Keine Property gewaehlt",
                           "Bitte zuerst eine Property auswaehlen."))
  ELSE IF w.cur.ndocs = 0
  THEN AfterTimelineCall(
         setTimelineStatus(w, "error", "Keine Dokumente",
                           "Bitte zuerst mindestens ein PDF hochladen."))
  ELSE LET w1 == setLastTimelineAction(StartAction(w, "load"), "load")
           w2 == setTimelineStatus(w1, "loading", "Timeline wird aktualisiert...",
                                   "Kann bei vielen Dokumenten bis zu 3 Minuten dauern.")
       IN StartRequest([w2 EXCEPT !.cur.fromUpload = fromUpload], "load", "tl_rebuild")

\* rebuildTimeline after POST /timeline/rebuild.
rebuildTimelinePosted(w, outcome) ==
  IF outcome = "ok"
  THEN StartRequest(IssueLoad(w, w.cur.prop), "load", "tl_list")
  ELSE AfterTimelineCall(Rejected(w, outcome))

\* rebuildTimeline after GET /timeline.
rebuildTimelineListed(w, outcome) ==
  IF outcome = "ok"
  THEN LET items == TimelineOf(w.cur.prop)
           w1 == [w EXCEPT !.st.timelineItems = items]
           w2 == setTimelineStatus(w1, "success", "Timeline aktualisiert",
                                   "neu berechnet, sichtbar.")
       IN AfterTimelineCall(SettleLoad(w2, "ok"))
  ELSE AfterTimelineCall(Rejected(w, outcome))

\* retryTimeline.
retryTimeline(w) ==
  IF w.st.lastTimelineAction = "raw"
  THEN extractTimeline(w)
  ELSE rebuildTimeline(w, FALSE)

\* ------------------------------------------------------------ loadDocuments
\* loadDocuments after its await: the new world and the list it returns (its length).
loadDocumentsSettled(w, outcome, n) ==
  IF outcome = "ok"
  THEN [w |-> [w EXCEPT !.st.documents = DocsOf(w.cur.prop, n)], len |-> n]
  ELSE IF outcome = "e401"
  THEN [w |-> [w EXCEPT !.st.currentUser = NoUser,
                        !.st.properties = {},
                        !.st.activePropertyId = NoProp], len |-> 0]
  ELSE [w |-> w, len |-> 0]

\* --------------------------------------------------------- syncPropertyData
\* The effect on [currentUser?.id, activePropertyId], run in the render of w.st.
syncPropertyData(w) ==
  IF w.st.currentUser = NoUser \/ w.st.activePropertyId = NoProp
  THEN ClearLoad([w EXCEPT !.st.documents = {}, !.st.timelineItems = <<>>])
  ELSE Suspend([w EXCEPT !.cur = Closure(w.st, "sync")], "docs")

\* syncPropertyData after await loadDocuments().
syncPropertyDataDocs(w, outcome, n) ==
  LET r == loadDocumentsSettled(w, outcome, n) IN
  IF r.len > 0
  THEN loadTimelineFromStore(r.w)
  ELSE Finish(ClearLoad([r.w EXCEPT !.st.timelineItems = <<>>]))

\* The effect on [selectedLanguage], run in the render of w.st.
languageEffect(w) ==
  IF w.st.currentUser = NoUser \/ w.st.activePropertyId = NoProp THEN w
  ELSE IF w.st.documents = {} THEN w
  ELSE loadTimelineFromStore([w EXCEPT !.cur = Closure(w.st, "load")])

\* ----------------------------------------------------------------- onUpload
\* onUpload up to the first await uploadWithProgress.
onUpload(w) ==
  IF w.cur.prop = NoProp
  THEN Finish([w EXCEPT !.st.uploadState = "error"])
  ELSE IF w.cur.files = <<>>
  THEN Finish([w EXCEPT !.st.uploadErrors = <<[text |-> "Bitte mindestens eine gueltige PDF- oder ZIP-Datei auswaehlen."]>>,
                        !.st.uploadState = "error"])
  ELSE Suspend([w EXCEPT !.st.uploadPending = TRUE,
                         !.st.uploadState = "loading",
                         !.cur.i = 1], "file")

\* The summary as it would be if it always emptied the selection.
onUploadSummary_clearing(w) ==
  LET t == w.cur
      state == IF t.failedItems = 0 /\ t.queuedJobs > 0 /\ t.uploadedDocuments = 0
               THEN "loading"
               ELSE IF t.failedItems = 0 THEN "success" ELSE "error"
      w1 == [w EXCEPT !.st.uploadState = state, !.st.uploadPending = FALSE,
                      !.gh.event = "summary", !.gh.failedItems = t.failedItems]
  IN Suspend([w1 EXCEPT !.st.selectedFiles = <<>>], "docs")

\* onUpload after the last file of the loop: the summary, then await loadDocuments().
onUploadSummary(w) ==
  LET t == w.cur
      state == IF t.failedItems = 0 /\ t.queuedJobs > 0 /\ t.uploadedDocuments = 0
               THEN "loading"
               ELSE IF t.failedItems = 0 THEN "success" ELSE "error"
      w1 == [w EXCEPT !.st.uploadState = state, !.st.uploadPending = FALSE,
                      !.gh.event = "summary", !.gh.failedItems = t.failedItems]
      w2 == IF t.failedItems = 0 THEN [w1 EXCEPT !.st.selectedFiles = <<>>] ELSE w1
  IN Suspend(w2, "docs")

\* onUpload after one await uploadWithProgress: kind is "queued" (data.queued),
\* "zip" (data.documents with processed_count and failed_count), "single" (one
\* document) or "fail" (the request rejected).
onUploadFile(w, kind, processed, failed) ==
  LET t == w.cur
      w1 == IF kind = "queued" THEN [w EXCEPT !.cur.queuedJobs = @ + 1]
            ELSE IF kind = "zip" THEN [w EXCEPT !.cur.uploadedDocuments = @ + processed,
                                                !.cur.failedItems = @ + failed]
            ELSE IF kind = "single" THEN [w EXCEPT !.cur.uploadedDocuments = @ + 1]
            ELSE [w EXCEPT !.cur.failedItems = @ + 1]
  IN IF t.i < Len(t.files)
     THEN Suspend([w1 EXCEPT !.cur.i = @ + 1], "file")
     ELSE onUploadSummary(w1)

\* onUpload after await loadDocuments().
onUploadDocs(w, outcome, n) ==
  LET r == loadDocumentsSettled(w, outcome, n) IN
  IF w.cur.uploadedDocuments > 0
  THEN rebuildTimeline([r.w EXCEPT !.gh.event = "uploaded"], TRUE)
  ELSE AfterTimelineCall(r.w)

\* pollBackgroundZipProcessing after the wait and the await loadDocuments() of
\* one attempt.
pollBackgroundZipProcessing(w, outcome, n) ==
  LET r == loadDocumentsSettled(w, outcome, n) IN
  IF r.len > w.cur.ndocs
  THEN rebuildTimeline([r.w EXCEPT !.st.uploadState = "success"], TRUE)
  ELSE IF w.cur.attempt < maxAttempts
  THEN Suspend([r.w EXCEPT !.cur.attempt = @ + 1], "poll")
  ELSE Finish([r.w EXCEPT !.gh.event = "pollStopped"])

\* ------------------------------------------------------------------ effects
\* The effects React runs after the commit of an action that started in state old.
RunEffects(old, w) ==
  IF old.currentUser # w.st.currentUser \/ old.activePropertyId # w.st.activePropertyId
  THEN syncPropertyData(w)
  ELSE w

Commit(w0) ==
  LET w == RunEffects(st, w0) IN
  /\ ~w.ovf
  /\ st' = w.st
  /\ tasks' = w.tasks
  /\ gh' = w.gh
  /\ UNCHANGED <<chat, tl, api, del, hc>>

\* A user event: the handler runs with the closure of the current render.
Handler(op) == [World EXCEPT !.cur = Closure(st, op)]

\* ------------------------------------------------- the chat history cache
\* A localStorage value: null (no entry), the JSON text of an array, JSON text
\* of something that is no array, or text that is no JSON.
Absent == [text |-> "null"]
NotAnArray == [text |-> "{}"]
NoJson == [text |-> "garbage"]

\* JSON.stringify(chatHistory).
stringify(history) == [text |-> "[...]", items |-> history]

\* The load effect's `raw ? JSON.parse(raw) : []` with Array.isArray and catch.
parseHistory(raw) ==
  IF raw = Absent THEN <<>>
  ELSE IF raw = NoJson THEN <<>>
  ELSE IF raw.text = "[...]" THEN raw.items
  ELSE <<>>

\* String(activePropertyId), and the initializer of activePropertyId: null for
\* no entry, else Number(raw) when that is finite.
String(p) == [text |-> "digits", number |-> p]
\* Stored text that is no canonical number: digits with white space around
\* them, which Number() reads as the number, and the empty string.
Spaced(p) == [text |-> " digits ", number |-> p]
Empty == [text |-> ""]
parseActive(raw) ==
  IF raw = Absent \/ raw = Empty THEN NoProp
  ELSE IF raw.text \in {"digits", " digits "} THEN raw.number
  ELSE NoProp

\* A message: its role, its text, and the question it belongs to, which was
\* asked while property prop was active.
Message(role, prop, text) == [role |-> role, prop |-> prop, text |-> text]

\* Texts of the question field: sequences of characters, " " being white space.
Questions == {<<>>, <<" ">>, <<" ", "a", " ">>, <<"b">>}

\* String.prototype.trim().
RECURSIVE trimStart(_)
trimStart(s) == IF s # <<>> /\ Head(s) = " " THEN trimStart(Tail(s)) ELSE s
RECURSIVE trimEnd(_)
trimEnd(s) == IF s # <<>> /\ s[Len(s)] = " " THEN trimEnd(SubSeq(s, 1, Len(s) - 1)) ELSE s
trim(s) == trimEnd(trimStart(s))

\* No POST /chat, and what POST /chat can come back with.
NoRequest == [question |-> <<>>, property_id |-> NoProp]
ChatOutcomes == {"answer", "noAnswer", "e500"}

\* The persisting effect as it would be without removeItem.
persistActive_onlySet(c) ==
  [c EXCEPT !.activeKey = String(c.activePropertyId)]

\* The effect on [activePropertyId]: persist the selection.
persistActive(c) ==
  [c EXCEPT !.activeKey = IF c.activePropertyId = NoProp THEN Absent
                          ELSE String(c.activePropertyId)]

\* The effect on [chatHistory, activePropertyId]: save the history.
saveHistory(c) ==
  IF c.activePropertyId = NoProp THEN c
  ELSE [c EXCEPT !.storage[c.activePropertyId] = stringify(c.chatHistory)]

\* The effect on [activePropertyId]: load the history.
loadHistory(c) ==
  IF c.activePropertyId = NoProp THEN [c EXCEPT !.chatHistory = <<>>]
  ELSE [c EXCEPT !.chatHistory = parseHistory(c.storage[c.activePropertyId])]

\* The effects of one commit in declaration order; the load effect calls
\* setChatHistory with a new array, so a second commit follows in which only
\* the save effect has a changed dependency.
RunChatEffects(c, activeChanged) ==
  IF activeChanged
  THEN saveHistory(loadHistory(saveHistory(persistActive(c))))
  ELSE saveHistory(c)

\* The state of a freshly opened page over the given localStorage, before effects.
Mounted(storage, activeKey) ==
  [activePropertyId |-> parseActive(activeKey), chatHistory |-> <<>>,
   chatPending |-> FALSE, asked |-> NoProp,
   chatQuestion |-> <<>>, lastChatQuestion |-> <<>>, chatState |-> "idle",
   request |-> NoRequest, lastSent |-> NoRequest, called |-> FALSE, argument |-> <<>>,
   storage |-> storage, activeKey |-> activeKey, keyAtMount |-> activeKey,
   event |-> "none", before |-> storage]

\* What a step leaves for the claims: the step's kind and localStorage before it.
Mark(c, event, before) == [c EXCEPT !.event = event, !.before = before]

\* The start of a step: no call of askChat has been made in it yet.
Uncalled(c) == [c EXCEPT !.called = FALSE, !.argument = <<>>]

\* The page is (re)loaded: the component state is rebuilt from localStorage and
\* every effect runs; requests in flight are gone.
Reload ==
  /\ chat' = Mark(RunChatEffects(Mounted(chat.storage, chat.activeKey), TRUE), "mount", chat.storage)
  /\ UNCHANGED <<st, tasks, gh, tl, api, del, hc>>

\* setActivePropertyId(p) by the property select, loadProperties or logout.
ChatSelectProperty(p) ==
  /\ p # chat.activePropertyId
  /\ chat' = Mark(RunChatEffects([Uncalled(chat) EXCEPT !.activePropertyId = p], TRUE), "switch", chat.storage)
  /\ UNCHANGED <<st, tasks, gh, tl, api, del, hc>>

\* askChat as it would be if it remembered the question as typed.
askChatCall_asTyped(c0, question) ==
  LET c == [c0 EXCEPT !.called = TRUE, !.argument = question]
      q == trim(question) IN
  IF c.activePropertyId = NoProp THEN [c EXCEPT !.chatState = "error"]
  ELSE IF trim(question) = <<>> THEN [c EXCEPT !.chatState = "error"]
  ELSE RunChatEffects(
         [c EXCEPT !.lastChatQuestion = question,
                   !.chatHistory = Append(@, Message("user", c.activePropertyId, q)),
                   !.chatQuestion = <<>>,
                   !.chatPending = TRUE,
                   !.chatState = "loading",
                   !.asked = c.activePropertyId,
                   !.request = [question |-> q, property_id |-> c.activePropertyId],
                   !.lastSent = [question |-> q, property_id |-> c.activePropertyId]], FALSE)

\* askChat(question) up to its await, or to the return of its guards.
askChatCall(c0, question) ==
  LET c == [c0 EXCEPT !.called = TRUE, !.argument = question]
      q == trim(question) IN
  IF c.activePropertyId = NoProp THEN [c EXCEPT !.chatState = "error"]
  ELSE IF trim(question) = <<>> THEN [c EXCEPT !.chatState = "error"]
  ELSE RunChatEffects(
         [c EXCEPT !.lastChatQuestion = q,
                   !.chatHistory = Append(@, Message("user", c.activePropertyId, q)),
                   !.chatQuestion = <<>>,
                   !.chatPending = TRUE,
                   !.chatState = "loading",
                   !.asked = c.activePropertyId,
                   !.request = [question |-> q, property_id |-> c.activePropertyId],
                   !.lastSent = [question |-> q, property_id |-> c.activePropertyId]], FALSE)

\* onQuestionChange / onUseExample: setChatQuestion(text).
onQuestionChange(text) ==
  /\ ~chat.chatPending
  /\ text # chat.chatQuestion
  /\ chat' = Mark(Uncalled([chat EXCEPT !.chatQuestion = text]), "type", chat.storage)
  /\ UNCHANGED <<st, tasks, gh, tl, api, del, hc>>

\* onAsk, or Enter in the question field: askChat(chatQuestion).
askChat ==
  /\ ~chat.chatPending
  /\ Len(chat.chatHistory) + 2 <= MaxMsgs
  /\ chat' = Mark(askChatCall(Uncalled(chat), chat.chatQuestion), "ask", chat.storage)
  /\ UNCHANGED <<st, tasks, gh, tl, api, del, hc>>

\* onRetry (the button is rendered while the chat state is 'error').
retryChat ==
  /\ chat.chatState = "error"
  /\ ~chat.chatPending
  /\ Len(chat.chatHistory) + 2 <= MaxMsgs
  /\ chat' = Mark(IF chat.lastChatQuestion = <<>> THEN Uncalled(chat)
                  ELSE askChatCall(Uncalled(chat), chat.lastChatQuestion),
                  "retryChat", chat.storage)
  /\ UNCHANGED <<st, tasks, gh, tl, api, del, hc>>

\* askChat after its await as it would be if a failure were not reported in
\* the history.
askChatSettled_silent(outcome) ==
  /\ chat.chatPending
  /\ LET text == IF outcome = "answer" THEN [kind |-> "answer", answer |-> "x"]
                 ELSE [kind |-> "answer", answer |-> ""] IN
     chat' = Mark(RunChatEffects(
                [Uncalled(chat) EXCEPT
                   !.chatHistory = IF outcome = "e500" THEN @
                                   ELSE Append(@, Message("assistant", chat.asked, text)),
                   !.chatState = IF outcome = "e500" THEN "error" ELSE "success",
                   !.chatPending = FALSE,
                   !.asked = NoProp,
                   !.request = NoRequest], FALSE), "answer", chat.storage)
  /\ UNCHANGED <<st, tasks, gh, tl, api, del, hc>>

\* askChat after its await: the answer, or the error text, is appended.
askChatSettled(outcome) ==
  /\ chat.chatPending
  /\ LET text == IF outcome = "answer" THEN [kind |-> "answer", answer |-> "x"]
                 ELSE IF outcome = "noAnswer" THEN [kind |-> "answer", answer |-> ""]
                 ELSE [kind |-> "Fehler", message |-> normalizeApiError(outcome)] IN
     chat' = Mark(RunChatEffects(
                [Uncalled(chat) EXCEPT
                   !.chatHistory = Append(@, Message("assistant", chat.asked, text)),
                   !.chatState = IF outcome = "e500" THEN "error" ELSE "success",
                   !.chatPending = FALSE,
                   !.asked = NoProp,
                   !.request = NoRequest], FALSE), "answer", chat.storage)
  /\ UNCHANGED <<st, tasks, gh, tl, api, del, hc>>

EmptyStorage == [p \in Props |-> Absent]

\* ------------------------------------------------ the timeline's order
\* Categories a timeline item can carry ("other" is none of the known ones), the
\* calendar days its date_iso can name (0 is today's date where the browser
\* is), a date_iso that Date cannot parse, and time_24h in minutes (-1: none).
\* Texts are sequences of characters. The browser's time zone is given in
\* hours east of UTC.
Categories == {"deadline", "info", "other"}
Days == {-15, -14, 0, 7, 8}
InvalidDates == {1000}
Times == {-1, 540}
Timezones == {-5, 0, 1}
TimelineItems ==
  [category : {"deadline", "info"}, date_iso : Days \cup InvalidDates, time_24h : {-1},
   title : {<<"A">>}, description : {<<>>}]
  \cup [category : Categories \cup {"payment"}, date_iso : {0}, time_24h : Times \ {-1},
        title : {<<"A">>}, description : {<<"b">>}]

normalizeCategory(category) ==
  IF category \in {"meeting", "payment", "deadline", "info", "tax"} THEN category ELSE "info"

timelinePriority(category) ==
  LET normalized == normalizeCategory(category) IN
  IF normalized = "deadline" THEN 0
  ELSE IF normalized = "payment" THEN 1
  ELSE IF normalized = "meeting" THEN 2
  ELSE IF normalized = "info" THEN 3
  ELSE 4

\* new Date(date_iso).getTime(), counted in hours instead of milliseconds, from
\* 00:00 UTC of day 0: a date without a time is read as 00:00 UTC of that day.
getTime(date_iso) == date_iso * 24

\* `time_24h || "99:99"` as localeCompare orders it.
timeKey(item) == IF item.time_24h = -1 THEN 9999 ELSE item.time_24h

\* The comparator of filteredTimeline: negative, zero or positive.
compareItems(a, b) ==
  LET pa == timelinePriority(a.category)
      pb == timelinePriority(b.category)
      da == getTime(a.date_iso)
      db == getTime(b.date_iso)
  IN IF pa # pb THEN pa - pb
     ELSE IF a.date_iso \in InvalidDates \/ b.date_iso \in InvalidDates THEN 0  \* NaN counts as +0
     ELSE IF da # db THEN da - db
     ELSE timeKey(a) - timeKey(b)

\* Array.prototype.sort with that comparator (a stable sort).
RECURSIVE insertSorted(_, _)
insertSorted(sorted, item) ==
  IF sorted = <<>> THEN <<item>>
  ELSE IF compareItems(item, Head(sorted)) < 0 THEN <<item>> \o sorted
  ELSE <<Head(sorted)>> \o insertSorted(Tail(sorted), item)

RECURSIVE sortItems(_)
sortItems(items) ==
  IF items = <<>> THEN <<>>
  ELSE insertSorted(sortItems(SubSeq(items, 1, Len(items) - 1)), items[Len(items)])

\* filteredTimeline as it would be if it searched the title only.
filteredTimeline_titleOnly(items, timelineCategory, timelineSearch) ==
  LET lower(s) == [i \in DOMAIN s |-> IF s[i] = "A" THEN "a" ELSE IF s[i] = "B" THEN "b" ELSE s[i]]
      includes(s, t) == \E i \in 1..(Len(s) - Len(t) + 1) : SubSeq(s, i, i + Len(t) - 1) = t
      q == lower(trim(timelineSearch))
  IN SelectSeq(sortItems(items),
       LAMBDA item :
         /\ timelineCategory = "" \/ normalizeCategory(item.category) = timelineCategory
         /\ q = <<>> \/ includes(lower(item.title), q))

\* filteredTimeline: the sorted items that pass the category and the text filter.
filteredTimeline(items, timelineCategory, timelineSearch) ==
  LET lower(s) == [i \in DOMAIN s |-> IF s[i] = "A" THEN "a" ELSE IF s[i] = "B" THEN "b" ELSE s[i]]
      includes(s, t) == \E i \in 1..(Len(s) - Len(t) + 1) : SubSeq(s, i, i + Len(t) - 1) = t
      q == lower(trim(timelineSearch))
  IN SelectSeq(sortItems(items),
       LAMBDA item :
         /\ timelineCategory = "" \/ normalizeCategory(item.category) = timelineCategory
         /\ q = <<>> \/ includes(lower(item.title \o <<" ">> \o item.description), q))

\* The test of timelineCurrentItems on one item. `start` is 00:00 of today in
\* the browser's time zone.
isCurrent(item, timezone) ==
  LET start == 0 - timezone
      next60 == start + 60 * 24
      last14 == start - 14 * 24
      infoNearFuture == start + 7 * 24
      dt == getTime(item.date_iso)
      category == normalizeCategory(item.category)
      isInfo == category = "info"
      isUpcomingNonInfo == ~isInfo /\ dt >= start
      isDeadlineOrPaymentSoon == category \in {"deadline", "payment"} /\ dt >= start /\ dt <= next60
      isRecentlyRelevant == dt < start /\ dt >= last14
      isInfoNearFuture == isInfo /\ dt >= start /\ dt <= infoNearFuture
  IN IF item.date_iso \in InvalidDates THEN FALSE
     ELSE IF isInfo THEN isInfoNearFuture \/ isRecentlyRelevant
     ELSE isUpcomingNonInfo \/ isDeadlineOrPaymentSoon \/ isRecentlyRelevant

timelineCurrentItems(filtered, timezone) ==
  SelectSeq(filtered, LAMBDA item : isCurrent(item, timezone))
timelineArchiveItems(filtered, timezone) ==
  SelectSeq(filtered, LAMBDA item : ~isCurrent(item, timezone))

\* TimelineCard's actionSummary over the items of the current section. The
\* date named is the calendar day of the instant in the browser's time zone.
actionSummary(visibleItems, timezone) ==
  LET today == 0 - timezone
      valid(item) == item.date_iso \notin InvalidDates
      count(test(_)) == Len(SelectSeq(visibleItems, test))
      isOpenDeadline(item) ==
        valid(item) /\ getTime(item.date_iso) >= today /\ normalizeCategory(item.category) = "deadline"
      isDuePayment(item) ==
        /\ normalizeCategory(item.category) = "payment" /\ valid(item)
        /\ getTime(item.date_iso) >= today /\ getTime(item.date_iso) <= today + 30 * 24
      openDeadlines == count(isOpenDeadline)
      duePayments30d == count(isDuePayment)
      deadlines == {getTime(visibleItems[i].date_iso) : i \in
                      {j \in DOMAIN visibleItems :
                         /\ normalizeCategory(visibleItems[j].category) = "deadline"
                         /\ valid(visibleItems[j])}}
      nextDeadline == CHOOSE dt \in deadlines : \A other \in deadlines : dt <= other
      toLocaleDateString(dt) == (dt + timezone) \div 24
  IN IF openDeadlines > 0 /\ deadlines # {}
     THEN [text |-> "Fristen stehen an", openDeadlines |-> openDeadlines,
           next |-> toLocaleDateString(nextDeadline)]
     ELSE IF duePayments30d > 0
     THEN [text |-> "Zahlungen faellig", duePayments30d |-> duePayments30d]
     ELSE IF openDeadlines = 0 THEN [text |-> "Keine offenen Fristen"]
     ELSE [text |-> "Fristen und Zahlungen"]

\* groupTimelineByDate: the Map's entries, in the order their keys were first set.
RECURSIVE groupTimelineByDate(_)
groupTimelineByDate(items) ==
  IF items = <<>> THEN <<>>
  ELSE LET key == Head(items).date_iso
           same == SelectSeq(items, LAMBDA x : x.date_iso = key)
           rest == SelectSeq(items, LAMBDA x : x.date_iso # key)
       IN <<[date_iso |-> key, items |-> same]>> \o groupTimelineByDate(rest)

\* One render: the memoized values derived from the list and the filters, and
\* what TimelineCard derives from them.
Rendered(items, timelineCategory, timelineSearch, timezone) ==
  LET filtered == filteredTimeline(items, timelineCategory, timelineSearch)
      current == timelineCurrentItems(filtered, timezone) IN
  [timelineItems |-> items, timelineCategory |-> timelineCategory,
   timelineSearch |-> timelineSearch, timezone |-> timezone,
   filteredTimeline |-> filtered,
   timelineCurrentItems |-> current,
   timelineArchiveItems |-> timelineArchiveItems(filtered, timezone),
   timelineCurrentGrouped |-> groupTimelineByDate(current),
   timelineArchiveGrouped |-> groupTimelineByDate(timelineArchiveItems(filtered, timezone)),
   actionSummary |-> actionSummary(current, timezone)]

ItemLists == UNION {[1..k -> TimelineItems] : k \in 0..MaxItems}

\* setTimelineItems(items) with the items of a response.
SetTimelineItems(items) ==
  /\ items # tl.timelineItems
  /\ tl' = Rendered(items, tl.timelineCategory, tl.timelineSearch, tl.timezone)
  /\ UNCHANGED <<st, tasks, gh, chat, api, del, hc>>

\* The category filter of the timeline card.
SetTimelineCategory(category) ==
  /\ category # tl.timelineCategory
  /\ tl' = Rendered(tl.timelineItems, category, tl.timelineSearch, tl.timezone)
  /\ UNCHANGED <<st, tasks, gh, chat, api, del, hc>>

\* The search field of the timeline card.
SetTimelineSearch(text) ==
  /\ text # tl.timelineSearch
  /\ tl' = Rendered(tl.timelineItems, tl.timelineCategory, text, tl.timezone)
  /\ UNCHANGED <<st, tasks, gh, chat, api, del, hc>>

\* ------------------------------------------------------------- apiCall
\* The options of a call: timeoutMs (0: not given) and whether the caller
\* passes a signal of its own.
TimeoutOptions == {0, 8000, 30000}
\* What the server can answer: a status and a body text.
Statuses == {200, 204, 401, 500}
Bodies == {"", "{\"detail\":\"x\"}", "{\"error\":\"y\"}",
           "{\"detail\":\"x\",\"error\":\"y\"}", "<html>", "null"}

\* parseResponse(raw).
parseResponse(raw) ==
  IF raw = "" THEN [kind |-> "object"]
  ELSE IF raw = "<html>" THEN [kind |-> "object", raw |-> raw]
  ELSE IF raw = "null" THEN [kind |-> "null"]
  ELSE IF raw = "{\"detail\":\"x\"}" THEN [kind |-> "object", detail |-> "x"]
  ELSE IF raw = "{\"error\":\"y\"}" THEN [kind |-> "object", error |-> "y"]
  ELSE [kind |-> "object", detail |-> "x", error |-> "y"]

\* The message of the ApiError thrown for a response that is not ok:
\* body.detail || body.error || body.raw || `HTTP ${resp.status}`.
errorMessage(body, status) ==
  IF "detail" \in DOMAIN body THEN body.detail
  ELSE IF "error" \in DOMAIN body THEN body.error
  ELSE IF "raw" \in DOMAIN body THEN body.raw
  ELSE IF status = 401 THEN "HTTP 401" ELSE "HTTP 500"

\* Math.max(1, Math.round(performance.now() - startedAt)); elapsed is the
\* rounded number of milliseconds since startedAt.
latencyMs(elapsed) == IF elapsed < 1 THEN 1 ELSE elapsed

NoCall ==
  [phase |-> "idle", timeoutMs |-> 0, ownSignal |-> FALSE, ownAborted |-> FALSE,
   controllerAborted |-> FALSE, timer |-> "none", fired |-> FALSE, cleared |-> FALSE,
   status |-> 0, raw |-> "unread", result |-> [kind |-> "none"]]

\* The signal fetch is given: `requestOptions.signal || controller.signal`.
SignalAborted(a) == IF a.ownSignal THEN a.ownAborted ELSE a.controllerAborted

\* The finally block: window.clearTimeout(timer).
clearTimeout(a) ==
  [a EXCEPT !.cleared = TRUE, !.timer = IF @ = "armed" THEN "cleared" ELSE @]

\* apiCall returns or throws.
Exit(a, result) == [clearTimeout(a) EXCEPT !.phase = "done", !.result = result]

\* apiCall(url, options) up to await fetch.
ApiCall(timeoutMs, ownSignal) ==
  /\ api.phase \in {"idle", "done"}
  /\ api' = [NoCall EXCEPT !.phase = "fetch",
                            !.timeoutMs = IF timeoutMs = 0 THEN defaultTimeoutMs ELSE timeoutMs,
                            !.ownSignal = ownSignal,
                            !.timer = "armed"]
  /\ UNCHANGED <<st, tasks, gh, chat, tl, del, hc>>

\* The timer callback: controller.abort().
TimerFires ==
  /\ api.timer = "armed"
  /\ api' = [api EXCEPT !.timer = "fired", !.fired = TRUE, !.controllerAborted = TRUE]
  /\ UNCHANGED <<st, tasks, gh, chat, tl, del, hc>>

\* The caller aborts the signal it passed.
OwnAbort ==
  /\ api.phase \in {"fetch", "body"}
  /\ api.ownSignal /\ ~api.ownAborted
  /\ api' = [api EXCEPT !.ownAborted = TRUE]
  /\ UNCHANGED <<st, tasks, gh, chat, tl, del, hc>>

\* fetch resolves with the response's head; apiCall awaits resp.text().
FetchResolves(status) ==
  /\ api.phase = "fetch"
  /\ ~SignalAborted(api)
  /\ api' = [api EXCEPT !.phase = "body", !.status = status]
  /\ UNCHANGED <<st, tasks, gh, chat, tl, del, hc>>

\* resp.text() resolves: parseResponse, then return or throw ApiError.  On a
\* response that is not ok the code reads body.detail; when JSON.parse gave
\* null that read throws a TypeError, which the catch block wraps in an
\* ApiError without a status.
BodyRead(raw, elapsed) ==
  /\ api.phase = "body"
  /\ ~SignalAborted(api)
  /\ LET body == parseResponse(raw)
         a == [api EXCEPT !.raw = raw]
     IN
     api' = IF api.status \in 200..299
            THEN Exit(a, [kind |-> "data", data |-> body, status |-> api.status,
                          latencyMs |-> latencyMs(elapsed)])
            ELSE IF body.kind = "null"
            THEN Exit(a, [kind |-> "ApiError",
                          message |-> "Cannot read properties of null (reading 'detail')",
                          status |-> 0, isTimeout |-> FALSE,
                          latencyMs |-> latencyMs(elapsed)])
            ELSE Exit(a, [kind |-> "ApiError", message |-> errorMessage(body, api.status),
                          status |-> api.status, isTimeout |-> FALSE,
                          latencyMs |-> latencyMs(elapsed)])
  /\ UNCHANGED <<st, tasks, gh, chat, tl, del, hc>>

\* fetch or resp.text() rejects because the signal it was given is aborted.
AbortRejects(elapsed) ==
  /\ api.phase \in {"fetch", "body"}
  /\ SignalAborted(api)
  /\ api' = Exit(api, [kind |-> "ApiError",
                        message |-> "Zeitueberschreitung der Anfrage. Bitte erneut versuchen.",
                        status |-> 0, isTimeout |-> TRUE,
                        latencyMs |-> latencyMs(elapsed)])
  /\ UNCHANGED <<st, tasks, gh, chat, tl, del, hc>>

\* fetch or resp.text() rejects with a network error.
NetworkRejects(elapsed) ==
  /\ api.phase \in {"fetch", "body"}
  /\ ~SignalAborted(api)
  /\ api' = Exit(api, [kind |-> "ApiError", message |-> "Netzwerkfehler",
                        status |-> 0, isTimeout |-> FALSE,
                        latencyMs |-> latencyMs(elapsed)])
  /\ UNCHANGED <<st, tasks, gh, chat, tl, del, hc>>

\* ------------------------------------------------ onDeleteAllDocuments
\* The list as the page shows it, the documents the server holds, and the
\* handler: awaiting Promise.all of the DELETE requests ("deleting"), awaiting
\* loadDocuments ("loading"), or not running. `unanswered` are the DELETE
\* requests the server has not answered; `deleted` those that succeeded.
\* documentStatuses maps the ids that have an entry to "indexed", "processing"
\* or "error".  `doc` is the document onReprocessDocument was called with,
\* `before` the documentStatuses a step of loadDocuments found.
NoDelete ==
  [documents |-> {}, documentStatuses |-> <<>>, server |-> {}, pc |-> "idle",
   toDelete |-> {}, unanswered |-> {}, deleted |-> {}, doc |-> 0, before |-> <<>>,
   documentActionsPending |-> FALSE, event |-> "none"]

\* The updater loadDocuments hands to setDocumentStatuses.
loadDocumentsStatuses(prev, normalized) ==
  [d \in DOMAIN prev \cup normalized |-> IF d \in DOMAIN prev THEN prev[d] ELSE "indexed"]

\* onDeleteAllDocuments up to await Promise.all (the user confirms).
onDeleteAllDocuments ==
  /\ del.pc = "idle" /\ ~del.documentActionsPending
  /\ del.documents # {}
  /\ del.unanswered = {}
  /\ del' = [del EXCEPT !.pc = "deleting", !.toDelete = del.documents,
                         !.unanswered = del.documents, !.deleted = {},
                         !.documentActionsPending = TRUE, !.event = "none"]
  /\ UNCHANGED <<st, tasks, gh, chat, tl, api, hc>>

\* The server answers one DELETE. Promise.all rejects with the first failure
\* (catch, finally) and resolves with the last success (the statuses are
\* dropped and loadDocuments is called).
DeleteAnswered(doc, outcome) ==
  /\ doc \in del.unanswered
  /\ LET d == [del EXCEPT !.unanswered = @ \ {doc},
                          !.server = IF outcome = "ok" THEN @ \ {doc} ELSE @,
                          !.deleted = IF outcome = "ok" THEN @ \cup {doc} ELSE @,
                          !.event = "none"] IN
     del' = IF del.pc # "deleting" THEN d
            ELSE IF outcome # "ok"
            THEN [d EXCEPT !.pc = "idle", !.documentActionsPending = FALSE,
                           !.event = "settled"]
            ELSE IF d.unanswered = {}
            THEN [d EXCEPT !.pc = "loading",
                           !.documentStatuses =
                               [x \in DOMAIN @ \ del.toDelete |-> del.documentStatuses[x]]]
            ELSE d
  /\ UNCHANGED <<st, tasks, gh, chat, tl, api, hc>>

\* loadDocuments after its await, and the rest of onDeleteAllDocuments.
DeleteListSettled(outcome) ==
  /\ del.pc = "loading"
  /\ del' = [del EXCEPT !.pc = "idle", !.documentActionsPending = FALSE,
                         !.event = "settled",
                         !.documents = IF outcome = "ok" THEN del.server ELSE @,
                         !.documentStatuses = IF outcome = "ok"
                                              THEN loadDocumentsStatuses(@, del.server) ELSE @]
  /\ UNCHANGED <<st, tasks, gh, chat, tl, api, hc>>

\* ------------------------------------------------- onReprocessDocument
\* setDocumentStatuses((prev) => ({ ...prev, [doc.document_id]: status })).
setDocumentStatus(prev, doc, status) ==
  [d \in DOMAIN prev \cup {doc} |-> IF d = doc THEN status ELSE prev[d]]

\* onReprocessDocument(doc) up to await apiFetch.  The menu item is rendered
\* for the listed documents and is disabled while actionsPending; a listed
\* document belongs to the active property, so the guard on activePropertyId
\* passes.
onReprocessDocument(doc) ==
  /\ ~del.documentActionsPending
  /\ doc \in del.documents
  /\ del' = [del EXCEPT !.pc = "reprocessing", !.doc = doc,
                         !.documentActionsPending = TRUE,
                         !.documentStatuses = setDocumentStatus(@, doc, "processing"),
                         !.event = "reprocess", !.before = <<>>]
  /\ UNCHANGED <<st, tasks, gh, chat, tl, api, hc>>

\* onReprocessDocument without the status update of its catch block.
ReprocessSettled_noCatch(outcome) ==
  /\ del.pc = "reprocessing"
  /\ del' = IF outcome = "ok"
            THEN [del EXCEPT !.pc = "reloading",
                             !.documentStatuses = setDocumentStatus(@, del.doc, "indexed"),
                             !.event = "posted", !.before = <<>>]
            ELSE [del EXCEPT !.pc = "idle",
                             !.documentActionsPending = FALSE,
                             !.event = "failed", !.before = <<>>]
  /\ UNCHANGED <<st, tasks, gh, chat, tl, api, hc>>

\* POST /timeline/extract-documents settles: on success the status becomes
\* "indexed" and the handler awaits loadTimelineFromStore(false); on failure
\* the catch block sets "error" and the finally block ends the handler.
ReprocessSettled(outcome) ==
  /\ del.pc = "reprocessing"
  /\ del' = IF outcome = "ok"
            THEN [del EXCEPT !.pc = "reloading",
                             !.documentStatuses = setDocumentStatus(@, del.doc, "indexed"),
                             !.event = "posted", !.before = <<>>]
            ELSE [del EXCEPT !.pc = "idle",
                             !.documentStatuses = setDocumentStatus(@, del.doc, "error"),
                             !.documentActionsPending = FALSE,
                             !.event = "failed", !.before = <<>>]
  /\ UNCHANGED <<st, tasks, gh, chat, tl, api, hc>>

\* loadTimelineFromStore(false) returns (it catches its own errors), then the
\* finally block of onReprocessDocument.
ReprocessTimelineSettled ==
  /\ del.pc = "reloading"
  /\ del' = [del EXCEPT !.pc = "idle", !.documentActionsPending = FALSE,
                         !.event = "reloaded", !.before = <<>>]
  /\ UNCHANGED <<st, tasks, gh, chat, tl, api, hc>>

\* A loadDocuments call of another handler (the property effect, onUpload, the
\* ZIP polling) resolves with the server's list.
DocumentsLoaded ==
  /\ del' = [del EXCEPT !.documents = del.server,
                         !.documentStatuses = loadDocumentsStatuses(@, del.server),
                         !.event = "listed", !.before = del.documentStatuses]
  /\ UNCHANGED <<st, tasks, gh, chat, tl, api, hc>>

\* onUpload: the server stored an uploaded PDF as the new document doc, and
\* the handler sets its status.
UploadAnswered(doc) ==
  /\ doc \notin del.server
  /\ del' = [del EXCEPT !.server = @ \cup {doc},
                         !.documentStatuses = setDocumentStatus(@, doc, "indexed"),
                         !.event = "uploaded", !.before = <<>>]
  /\ UNCHANGED <<st, tasks, gh, chat, tl, api, hc>>

\* ------------------------------------------------------- health checks
\* The page after its mount effects: the first health check is in flight. A
\* check in flight is the closure of runHealthCheck that was called: the
\* firstHealthChecked of its render, and withToast. `completed` counts the
\* checks that have completed; `event` tells what the last step did to the
\* banner.
Booted ==
  [firstHealthChecked |-> FALSE, showColdStartBanner |-> FALSE, apiState |-> "loading",
   inFlight |-> {[firstHealthChecked |-> FALSE, withToast |-> FALSE]},
   completed |-> 0, event |-> "none"]

\* runHealthCheck(withToast) up to its await. The interval calls the
\* runHealthCheck of the render in which the effect ran (the first render,
\* the effect depending on apiBase only); the button calls the one of the
\* current render.
runHealthCheck(withToast) ==
  /\ hc.completed < MaxChecks
  /\ LET check == [firstHealthChecked |-> IF withToast THEN hc.firstHealthChecked ELSE FALSE,
                   withToast |-> withToast] IN
     /\ check \notin hc.inFlight
     /\ hc' = [hc EXCEPT !.apiState = "loading", !.inFlight = @ \cup {check}, !.event = "none"]
  /\ UNCHANGED <<st, tasks, gh, chat, tl, api, del>>

\* runHealthCheck after its await: outcome "ok", or an ApiError that is a
\* timeout, has no status, or has the status given, or an error that is no
\* ApiError.
HealthSettled(check, outcome) ==
  /\ check \in hc.inFlight
  /\ LET coldStart == outcome \in {"timeout", "noStatus", "e500"}
         h == [hc EXCEPT !.inFlight = @ \ {check},
                         !.completed = @ + 1] IN
     hc' = IF outcome = "ok"
           THEN [h EXCEPT !.apiState = "success", !.showColdStartBanner = FALSE,
                          !.firstHealthChecked = TRUE, !.event = "ok"]
           ELSE IF ~check.firstHealthChecked
           THEN [h EXCEPT !.apiState = "error",
                          !.showColdStartBanner = IF coldStart THEN TRUE ELSE @,
                          !.firstHealthChecked = TRUE,
                          !.event = IF coldStart /\ ~hc.showColdStartBanner THEN "bannerOn" ELSE "failed"]
           ELSE [h EXCEPT !.apiState = "error", !.event = "failed"]
  /\ UNCHANGED <<st, tasks, gh, chat, tl, api, del>>

\* ---------------------------------------------------------------- actions
\* The card area is rendered only for a signed-in user with a property list.
CardsShown == st.currentUser # NoUser /\ st.properties # {}
canWork == st.currentUser # NoUser /\ st.activePropertyId # NoProp
TimelinePending == st.timelineState = "loading"

\* loginWithEmailPassword up to the first await (sign-in, token, GET /auth/me).
Login ==
  /\ st.currentUser = NoUser
  /\ ~st.authPending
  /\ Commit(Suspend([Handler("login") EXCEPT !.st.authPending = TRUE,
                                              !.gh.loggedOut = FALSE], "me"))

\* Sign-in and GET /auth/me settle: loadMe (boot) or fetchSession (login).
\* "firebase": the sign-in itself rejects; "backend": GET /auth/me rejects.
MeSettled(t, outcome) ==
  /\ t.op = "boot" => outcome # "firebase"
  /\ IF outcome = "ok"
     THEN Commit(Suspend([Resume(t) EXCEPT !.st.currentUser = 1], "props"))
     ELSE LET w1 == IF outcome = "backend"
                    THEN [Resume(t) EXCEPT !.st.currentUser = NoUser] ELSE Resume(t)
              w2 == IF t.op = "login"
                    THEN [w1 EXCEPT !.st.authPending = FALSE] ELSE w1
          IN Commit(Finish(w2))

\* loadProperties settles (called by fetchSession and by boot).
PropertiesSettled(t, outcome, list) ==
  LET w1 == IF outcome = "ok"
            THEN [Resume(t) EXCEPT !.st.properties = list,
                                   !.st.activePropertyId =
                                      IF t.prop \in list THEN @
                                      ELSE IF list = {} THEN NoProp
                                      ELSE CHOOSE p \in list : \A q \in list : p <= q]
            ELSE [Resume(t) EXCEPT !.st.properties = {}, !.st.activePropertyId = NoProp]
      w2 == IF t.op = "login"
            THEN [w1 EXCEPT !.st.authPending = FALSE] ELSE w1
  IN Commit(Finish(w2))

\* logout up to await signOut(auth).
Logout ==
  /\ st.currentUser # NoUser
  /\ ~st.authPending
  /\ Commit(Suspend([Handler("logout") EXCEPT !.st.authPending = TRUE], "signout"))

\* logout with the statements of its finally block moved behind
\* setFirebaseIdToken("") in the try block.
LogoutSettled_onSuccess(t, outcome) ==
  LET w == [Resume(t) EXCEPT !.gh.loggedOut = TRUE,
                             !.gh.event = IF outcome = "ok" THEN "signedOut"
                                          ELSE "signOutRejected"]
  IN
  IF outcome = "ok"
  THEN Commit(Finish(ClearLoad([w EXCEPT !.st.currentUser = NoUser,
                                         !.st.properties = {},
                                         !.st.activePropertyId = NoProp,
                                         !.st.documents = {},
                                         !.st.timelineItems = <<>>,
                                         !.st.authPending = FALSE])))
  ELSE Commit(Finish(w))

\* logout after await signOut(auth): signOut resolved ("ok": the try block goes
\* on to setFirebaseIdToken(""), a cell that is not part of st) or rejected;
\* either way the finally block runs, and a rejection is then rethrown.
LogoutSettled(t, outcome) ==
  LET w == [Resume(t) EXCEPT !.gh.loggedOut = TRUE,
                             !.gh.event = IF outcome = "ok" THEN "signedOut"
                                          ELSE "signOutRejected"]
  IN
  Commit(Finish(ClearLoad([w EXCEPT !.st.currentUser = NoUser,
                                    !.st.properties = {},
                                    !.st.activePropertyId = NoProp,
                                    !.st.documents = {},
                                    !.st.timelineItems = <<>>,
                                    !.st.authPending = FALSE])))

\* The property <select>: setActivePropertyId.
SelectProperty(p) ==
  /\ CardsShown
  /\ p \in st.properties \cup {NoProp}
  /\ p # st.activePropertyId
  /\ Commit([World EXCEPT !.st.activePropertyId = p])

\* The language <select>: setSelectedLanguage to another language.
SelectLanguage ==
  Commit(languageEffect(World))

\* The raw-text textarea: setTimelineInput.
SetTimelineInput(text) ==
  /\ CardsShown /\ canWork /\ ~TimelinePending
  /\ text # st.timelineInput
  /\ Commit([World EXCEPT !.st.timelineInput = text])

\* The button "Aus Rohtext extrahieren".
ClickExtract ==
  /\ CardsShown /\ canWork /\ ~TimelinePending
  /\ Commit(extractTimeline(Handler("extract")))

\* The button "Timeline aktualisieren".
ClickRebuild ==
  /\ CardsShown /\ canWork /\ ~TimelinePending /\ st.documents # {}
  /\ Commit(rebuildTimeline(Handler("rebuild"), FALSE))

\* The button "Erneut versuchen" of the timeline card.
ClickRetryTimeline ==
  /\ CardsShown /\ canWork /\ st.timelineState = "error"
  /\ Commit(retryTimeline([Handler("retry") EXCEPT !.gh.event = "retry"]))

\* GET /documents settles for a syncPropertyData run.
SyncDocsSettled(t, outcome, n) ==
  /\ t.op = "sync"
  /\ Commit(syncPropertyDataDocs(Resume(t), outcome, n))

\* POST /timeline/extract settles.
ExtractSettled(t, outcome) == Commit(extractTimelineSettled(Resume(t), outcome))

\* GET /timeline settles for loadTimelineFromStore.
TimelineGetSettled(t, outcome) == Commit(loadTimelineFromStoreSettled(Resume(t), outcome))

\* POST /timeline/rebuild settles.
RebuildPostSettled(t, outcome) == Commit(rebuildTimelinePosted(Resume(t), outcome))

\* GET /timeline settles for rebuildTimeline.
RebuildListSettled(t, outcome) == Commit(rebuildTimelineListed(Resume(t), outcome))

\* The drop zone and the file input: addFiles.
AddFiles(files) ==
  /\ CardsShown
  /\ Commit(addFiles([World EXCEPT !.gh.event = "addFiles", !.gh.offered = files], files))

\* The buttons "Ausgewaehlte hochladen" and "Erneut versuchen" of the upload card.
ClickUpload ==
  /\ CardsShown /\ ~st.uploadPending
  /\ Commit(onUpload(Handler("upload")))

\* One uploadWithProgress settles.
FileSettled(t, kind, processed, failed) ==
  /\ kind # "zip" => processed = 0 /\ failed = 0
  /\ Commit(onUploadFile(Resume(t), kind, processed, failed))

\* GET /documents settles for onUpload.
UploadDocsSettled(t, outcome, n) ==
  /\ t.op = "upload"
  /\ Commit(onUploadDocs(Resume(t), outcome, n))

\* The wait is over and GET /documents settles for one polling attempt.
PollSettled(t, outcome, n) ==
  Commit(pollBackgroundZipProcessing(Resume(t), outcome, n))

\* After the mount: the boot effect awaits loadMe(); activePropertyId is what
\* localStorage held.
Init ==
  /\ \E p \in Props \cup {NoProp} :
        st = [InitState EXCEPT !.activePropertyId = p]
  /\ tasks = SetToBag({[NoTask EXCEPT !.op = "boot", !.pc = "me", !.prop = st.activePropertyId]})
  /\ gh = InitGhost
  /\ chat = RunChatEffects(Mounted(EmptyStorage, Absent), TRUE)
  /\ tl = Rendered(<<>>, "", <<>>, 0)
  /\ api = NoCall
  /\ hc = Booted
  /\ del = NoDelete

Next ==
  \/ Login
  \/ \E t \in Suspended("me"), o \in {"ok", "firebase", "backend"} : MeSettled(t, o)
  \/ \E t \in Suspended("props"), o \in Outcomes, l \in {{}, Props} : PropertiesSettled(t, o, l)
  \/ Logout
  \/ \E t \in Suspended("signout"), o \in {"ok", "rejected"} : LogoutSettled(t, o)
  \/ \E p \in Props \cup {NoProp} : SelectProperty(p)
  \/ SelectLanguage
  \/ \E text \in Inputs : SetTimelineInput(text)
  \/ ClickExtract
  \/ ClickRebuild
  \/ ClickRetryTimeline
  \/ \E t \in Suspended("docs"), o \in Outcomes, n \in 0..MaxDocs : SyncDocsSettled(t, o, n)
  \/ \E t \in Suspended("tl_extract"), o \in Outcomes : ExtractSettled(t, o)
  \/ \E t \in Suspended("tl_get"), o \in Outcomes : TimelineGetSettled(t, o)
  \/ \E t \in Suspended("tl_rebuild"), o \in Outcomes : RebuildPostSettled(t, o)
  \/ \E t \in Suspended("tl_list"), o \in Outcomes : RebuildListSettled(t, o)

Spec == Init /\ [][Next]_vars

\* --------------------------------------------------- the upload card alone
\* A signed-in user with property 1 selected, its n documents and its timeline
\* loaded, nothing in flight.
Loaded(n) ==
  [InitState EXCEPT !.currentUser = 1, !.properties = Props, !.activePropertyId = 1,
                    !.documents = DocsOf(1, n),
                    !.timelineItems = IF n > 0 THEN TimelineOf(1) ELSE <<>>,
                    !.timelineState = IF n > 0 THEN "success" ELSE "idle",
                    !.timelineMessage = IF n > 0 THEN "Timeline geladen" ELSE "Bereit",
                    !.timelineDetails = IF n > 0 THEN "Eintraege aus persistierter Timeline."
                                        ELSE "Rohtext einfuegen und Termine extrahieren.",
                    !.lastTimelineAction = IF n > 0 THEN "load" ELSE "null"]

LoadedGhost(n) ==
  IF n > 0
  THEN [InitGhost EXCEPT !.lastLoad = [src |-> 1, status |-> "ok"],
                         !.lastAction = "load", !.lastStarted = "load",
                         !.cap = MaxUploadTasks]
  ELSE [InitGhost EXCEPT !.cap = MaxUploadTasks]

InitUpload ==
  \E n \in 0..MaxDocs :
    /\ st = Loaded(n)
    /\ tasks = EmptyBag
    /\ gh = LoadedGhost(n)
    /\ chat = RunChatEffects(Mounted(EmptyStorage, Absent), TRUE)
    /\ tl = Rendered(<<>>, "", <<>>, 0)
    /\ api = NoCall
    /\ hc = Booted
    /\ del = NoDelete

\* The files the user offers while uploading: a PDF (by its extension) and a
\* ZIP (by its MIME type).
UploadFiles ==
  {[name |-> [stem |-> "a", ext |-> "PDF"], type |-> "text/plain", size |-> MAX_FILE_SIZE],
   [name |-> [stem |-> "a", ext |-> "txt"], type |-> "application/zip", size |-> MAX_FILE_SIZE]}

NextUpload ==
  \/ \E f \in UploadFiles : AddFiles(<<f>>)
  \/ ClickUpload
  \/ \E t \in Suspended("file"), k \in {"queued", "single", "zip", "fail"},
        p \in 0..MaxZip, f \in 0..MaxZip : FileSettled(t, k, p, f)
  \/ \E t \in Suspended("docs"), o \in Outcomes, n \in 0..MaxDocs : UploadDocsSettled(t, o, n)
  \/ \E t \in Suspended("poll"), o \in Outcomes, n \in 0..MaxDocs : PollSettled(t, o, n)
  \/ \E t \in Suspended("tl_rebuild"), o \in Outcomes : RebuildPostSettled(t, o)
  \/ \E t \in Suspended("tl_list"), o \in Outcomes : RebuildListSettled(t, o)
  \/ ClickRebuild

SpecUpload == InitUpload /\ [][NextUpload]_vars

\* ------------------------------------------- the file selection on its own
\* What the user can offer in one drop or one file dialog.
Batches == UNION {[1..k -> Files] : k \in 1..MaxFiles}

\* The backend answers every request of the upload: a file is stored or refused.
NextFiles ==
  \/ \E b \in Batches : AddFiles(b)
  \/ ClickUpload
  \/ \E t \in Suspended("file"), k \in {"single", "fail"} : FileSettled(t, k, 0, 0)
  \/ \E t \in Suspended("docs") : UploadDocsSettled(t, "ok", MaxDocs)
  \/ \E t \in Suspended("tl_rebuild") : RebuildPostSettled(t, "ok")
  \/ \E t \in Suspended("tl_list") : RebuildListSettled(t, "ok")

InitFiles ==
  /\ st = Loaded(MaxDocs)
  /\ tasks = EmptyBag
  /\ gh = LoadedGhost(MaxDocs)
  /\ chat = RunChatEffects(Mounted(EmptyStorage, Absent), TRUE)
  /\ tl = Rendered(<<>>, "", <<>>, 0)
  /\ api = NoCall
  /\ hc = Booted
  /\ del = NoDelete

SpecFiles == InitFiles /\ [][NextFiles]_vars

\* ------------------------------------------------ the chat cache alone
\* A page opened in a browser whose localStorage holds no history array yet.
InitChat ==
  \E storage \in [Props -> {Absent, NotAnArray, NoJson}],
     activeKey \in {Absent, NoJson, Empty, Spaced(NumProps)} \cup {String(p) : p \in Props} :
    /\ chat = Mark(RunChatEffects(Mounted(storage, activeKey), TRUE), "mount", storage)
    /\ st = InitState /\ tasks = EmptyBag /\ gh = InitGhost
    /\ tl = Rendered(<<>>, "", <<>>, 0)
    /\ api = NoCall
    /\ hc = Booted
    /\ del = NoDelete

NextChat ==
  \/ Reload
  \/ \E p \in Props \cup {NoProp} : ChatSelectProperty(p)
  \/ \E text \in {<<"a">>} : onQuestionChange(text)
  \/ askChat
  \/ \E outcome \in {"answer"} : askChatSettled(outcome)

SpecChat == InitChat /\ [][NextChat]_vars

\* ------------------------------------------------ the timeline's order alone
InitSort ==
  /\ \E timezone \in Timezones : tl = Rendered(<<>>, "", <<>>, timezone)
  /\ api = NoCall
  /\ hc = Booted
  /\ del = NoDelete
  /\ st = InitState /\ tasks = EmptyBag /\ gh = InitGhost
  /\ chat = RunChatEffects(Mounted(EmptyStorage, Absent), TRUE)

NextSort ==
  \/ \E items \in ItemLists : SetTimelineItems(items)
  \/ \E c \in {"", "info"} : SetTimelineCategory(c)
  \/ \E text \in {<<>>, <<" ", "B">>, <<"a", " ", "b">>} : SetTimelineSearch(text)

SpecSort == InitSort /\ [][NextSort]_vars

\* ------------------------------------------------- asking and retrying
\* The selections made while asking: one property, or none.
AskProps == {1, NoProp}

InitAsk ==
  \E p \in AskProps :
    /\ chat = Mark(RunChatEffects(
                 Mounted(EmptyStorage, IF p = NoProp THEN Absent ELSE String(p)), TRUE),
                 "mount", EmptyStorage)
    /\ st = InitState /\ tasks = EmptyBag /\ gh = InitGhost
    /\ tl = Rendered(<<>>, "", <<>>, 0)
    /\ api = NoCall
    /\ hc = Booted
    /\ del = NoDelete

NextAsk ==
  \/ \E text \in Questions : onQuestionChange(text)
  \/ askChat
  \/ retryChat
  \/ \E outcome \in ChatOutcomes : askChatSettled(outcome)
  \/ \E p \in AskProps : ChatSelectProperty(p)

SpecAsk == InitAsk /\ [][NextAsk]_vars

\* ------------------------------------------------- deleting all documents
InitDelete ==
  \E docs \in SUBSET (1..MaxDelDocs) :
    /\ del = [NoDelete EXCEPT !.documents = docs, !.server = docs,
                              !.documentStatuses = loadDocumentsStatuses(<<>>, docs)]
    /\ st = InitState /\ tasks = EmptyBag /\ gh = InitGhost
    /\ chat = RunChatEffects(Mounted(EmptyStorage, Absent), TRUE)
    /\ tl = Rendered(<<>>, "", <<>>, 0)
    /\ api = NoCall
    /\ hc = Booted

NextDelete ==
  \/ onDeleteAllDocuments
  \/ \E doc \in 1..MaxDelDocs, outcome \in {"ok", "e500"} : DeleteAnswered(doc, outcome)
  \/ \E outcome \in {"ok", "e500"} : DeleteListSettled(outcome)

SpecDelete == InitDelete /\ [][NextDelete]_vars

\* ------------------------------------------------ reprocessing documents
InitReprocess ==
  \E docs \in SUBSET (1..MaxDelDocs) :
    /\ del = [NoDelete EXCEPT !.documents = docs, !.server = docs,
                              !.documentStatuses = loadDocumentsStatuses(<<>>, docs)]
    /\ st = InitState /\ tasks = EmptyBag /\ gh = InitGhost
    /\ chat = RunChatEffects(Mounted(EmptyStorage, Absent), TRUE)
    /\ tl = Rendered(<<>>, "", <<>>, 0)
    /\ api = NoCall
    /\ hc = Booted

NextReprocess ==
  \/ \E doc \in 1..MaxDelDocs : onReprocessDocument(doc)
  \/ \E outcome \in {"ok", "e500"} : ReprocessSettled(outcome)
  \/ ReprocessTimelineSettled
  \/ DocumentsLoaded
  \/ \E doc \in 1..MaxDelDocs : UploadAnswered(doc)

SpecReprocess == InitReprocess /\ [][NextReprocess]_vars

\* --------------------------------------------------- health checks alone
InitHealth ==
  /\ hc = Booted
  /\ st = InitState /\ tasks = EmptyBag /\ gh = InitGhost
  /\ chat = RunChatEffects(Mounted(EmptyStorage, Absent), TRUE)
  /\ tl = Rendered(<<>>, "", <<>>, 0)
  /\ api = NoCall /\ del = NoDelete

NextHealth ==
  \/ \E withToast \in BOOLEAN : runHealthCheck(withToast)
  \/ \E check \in [firstHealthChecked : BOOLEAN, withToast : BOOLEAN],
        outcome \in {"ok", "timeout", "noStatus", "e404", "e500", "TypeError"} :
        HealthSettled(check, outcome)

SpecHealth == InitHealth /\ [][NextHealth]_vars

\* ------------------------------------------------------- apiCall alone
InitApi ==
  /\ api = NoCall
  /\ hc = Booted
  /\ del = NoDelete
  /\ st = InitState /\ tasks = EmptyBag /\ gh = InitGhost
  /\ chat = RunChatEffects(Mounted(EmptyStorage, Absent), TRUE)
  /\ tl = Rendered(<<>>, "", <<>>, 0)

NextApi ==
  \/ \E ms \in TimeoutOptions, own \in BOOLEAN : ApiCall(ms, own)
  \/ TimerFires
  \/ OwnAbort
  \/ \E status \in Statuses : FetchResolves(status)
  \/ \E raw \in Bodies, elapsed \in {0, 40} : BodyRead(raw, elapsed)
  \/ \E elapsed \in {0, 40} : AbortRejects(elapsed)
  \/ \E elapsed \in {0, 40} : NetworkRejects(elapsed)

SpecApi == InitApi /\ [][NextApi]_vars

\* ------------------------------------------------------------------ claims
\* C1: once every in-flight request has settled, if the timeline load issued
\* last was the one for property B and it succeeded, timelineItems does not hold
\* the items returned for another property A (by a response that arrived later).
C1_LastIssuedLoadWins ==
  \A B \in Props :
    (AllSettled /\ gh.lastLoad = [src |-> B, status |-> "ok"])
      => \A A \in Props \ {B} : st.timelineItems # TimelineOf(A)

\* C2: a step in which a request of extractTimeline, loadTimelineFromStore or
\* rebuildTimeline rejects leaves timelineItems, and every other state cell but
\* timelineState, timelineMessage and timelineDetails, as it was.
C2_FailedRequestKeepsItems ==
  [][gh'.event = "rejected" =>
       /\ st'.timelineItems = st.timelineItems
       /\ \A f \in DOMAIN st \ {"timelineState", "timelineMessage", "timelineDetails"} :
             st'[f] = st[f]]_vars

\* C2 (witness): a timeline request has just rejected while items are displayed.
C2_RejectedWithItems ==
  gh.event = "rejected" /\ st.timelineItems # <<>> /\ st.timelineState = "error"

\* What retryTimeline must do when the last timeline action was of the given kind:
\* the statuses extractTimeline resp. rebuildTimeline set before they return or await.
RetryDid(kind, s) ==
  IF kind = "raw"
  THEN s.timelineMessage \in {"Kein Text", "Extraktion laeuft..."}
  ELSE s.timelineMessage \in {"Keine Property gewaehlt", "Keine Dokumente",
                              "Timeline wird aktualisiert..."}

\* C3: after a page load over a localStorage that holds active property id P
\* and a non-empty history under P's key, chatHistory equals that stored
\* history and the stored entry is unchanged.
C3_HistorySurvivesReload ==
  \A P \in Props :
    (/\ chat.event = "mount"
     /\ chat.activeKey = String(P)
     /\ chat.before[P].text = "[...]"
     /\ parseHistory(chat.before[P]) # <<>>)
    => /\ chat.chatHistory = parseHistory(chat.before[P])
       /\ chat.storage[P] = chat.before[P]

\* C4: no property's stored history holds a message of another property, and
\* after a switch to property B chatHistory is the history that was stored
\* for B before the switch.
C4_HistoryPerProperty ==
  /\ \A p \in Props : \A i \in DOMAIN parseHistory(chat.storage[p]) :
        parseHistory(chat.storage[p])[i].prop = p
  /\ \A B \in Props :
        (chat.event = "switch" /\ chat.activePropertyId = B)
          => chat.chatHistory = parseHistory(chat.before[B])

\* The date groups of one section are in ascending date_iso order.
Ascending(grouped) ==
  \A i \in 1..Len(grouped) - 1 : grouped[i].date_iso < grouped[i + 1].date_iso

\* C5: in the current and in the archive section handed to TimelineCard the
\* date groups appear in ascending date_iso order, whatever the categories.
C5_GroupsAscendingByDate ==
  Ascending(tl.timelineCurrentGrouped) /\ Ascending(tl.timelineArchiveGrouped)

\* C6: a call during which the timer fired (so before the body had been read)
\* ends rejected with an ApiError whose isTimeout is true, whatever the options,
\* and every call that has ended has cleared its timer.
C6_EveryCallTimesOut ==
  api.phase = "done" =>
    /\ api.cleared /\ api.timer # "armed"
    /\ api.fired => (api.result.kind = "ApiError" /\ api.result.isTimeout)

\* C22: a call that has ended either returned {data, latencyMs >= 1, status}
\* for a 2xx response or threw an ApiError; and when the body of a response
\* that is not 2xx has been read, the ApiError carries the response's status
\* and its message is the first present of body.detail, body.error, the raw
\* body that is not JSON, and 'HTTP <status>'.
C22_FailuresAreApiErrors ==
  api.phase = "done" =>
    /\ api.result.kind \in {"data", "ApiError"}
    /\ api.result.kind = "data" =>
         /\ api.status \in 200..299
         /\ api.result.status = api.status
         /\ api.result.latencyMs >= 1
    /\ (api.raw # "unread" /\ api.status \notin 200..299) =>
         /\ api.result.kind = "ApiError"
         /\ api.result.status = api.status
         /\ api.result.message =
              CASE api.raw \in {"{\"detail\":\"x\"}", "{\"detail\":\"x\",\"error\":\"y\"}"} -> "x"
                [] api.raw = "{\"error\":\"y\"}" -> "y"
                [] api.raw = "<html>" -> "<html>"
                [] api.status = 401 -> "HTTP 401"
                [] OTHER -> "HTTP 500"

\* C23: the step in which logout completes, whether signOut resolved or
\* rejected, leaves currentUser null, properties, documents and timelineItems
\* empty, activePropertyId null and authPending false.
C23_LogoutClearsSession ==
  gh.event \in {"signedOut", "signOutRejected"} =>
    /\ st.currentUser = NoUser
    /\ st.properties = {}
    /\ st.documents = {}
    /\ st.timelineItems = <<>>
    /\ st.activePropertyId = NoProp
    /\ ~st.authPending

\* C23: a logout whose signOut rejected has completed and the session is cleared.
C23_RejectedSignOutCleared ==
  /\ gh.event = "signOutRejected"
  /\ st.currentUser = NoUser /\ st.properties = {} /\ ~st.authPending

\* C24: once logout has completed and no handler is waiting for a response
\* any more, currentUser is still null and documents and timelineItems are
\* still empty.
C24_NoDataAfterLogout ==
  (gh.loggedOut /\ AllSettled) =>
    /\ st.currentUser = NoUser
    /\ st.documents = {}
    /\ st.timelineItems = <<>>

\* C21: while the reprocess request of a document runs its status is
\* 'processing' and documentActionsPending is true; in the step in which the
\* request settles the status is 'indexed' if it succeeded and 'error' if not
\* and documentActionsPending is false; no document is 'processing' without a
\* running request; loadDocuments keeps every status it finds and gives
\* 'indexed' to the listed documents that had none.
C21_StatusFollowsRequest ==
  /\ del.pc = "reprocessing" =>
       del.documentStatuses[del.doc] = "processing" /\ del.documentActionsPending
  /\ del.event = "posted" =>
       del.documentStatuses[del.doc] = "indexed" /\ ~del.documentActionsPending
  /\ del.event = "failed" =>
       del.documentStatuses[del.doc] = "error" /\ ~del.documentActionsPending
  /\ \A d \in DOMAIN del.documentStatuses :
       del.documentStatuses[d] = "processing" => (del.pc = "reprocessing" /\ del.doc = d)
  /\ del.event = "listed" =>
       /\ DOMAIN del.documentStatuses = DOMAIN del.before \cup del.documents
       /\ \A d \in DOMAIN del.documentStatuses :
            del.documentStatuses[d] = IF d \in DOMAIN del.before THEN del.before[d]
                                      ELSE "indexed"

\* C21: as above, but documentActionsPending is false when onReprocessDocument
\* has finished: in the step of a failed request, and after a successful one
\* only when the reload of the timeline that follows it has settled; until
\* then it stays true.
C21_StatusFollowsHandler ==
  /\ del.pc = "reprocessing" =>
       del.documentStatuses[del.doc] = "processing" /\ del.documentActionsPending
  /\ del.event = "posted" => del.documentStatuses[del.doc] = "indexed"
  /\ del.pc = "reloading" => del.documentActionsPending
  /\ del.event = "reloaded" =>
       del.documentStatuses[del.doc] = "indexed" /\ ~del.documentActionsPending
  /\ del.event = "failed" =>
       del.documentStatuses[del.doc] = "error" /\ ~del.documentActionsPending
  /\ \A d \in DOMAIN del.documentStatuses :
       del.documentStatuses[d] = "processing" => (del.pc = "reprocessing" /\ del.doc = d)
  /\ del.event = "listed" =>
       /\ DOMAIN del.documentStatuses = DOMAIN del.before \cup del.documents
       /\ \A d \in DOMAIN del.documentStatuses :
            del.documentStatuses[d] = IF d \in DOMAIN del.before THEN del.before[d]
                                      ELSE "indexed"

\* C21: a reprocess request succeeded and its handler has finished, while
\* another document still shows the 'error' of its failed request.
C21_ReprocessedAfterFailure ==
  /\ del.event = "reloaded"
  /\ del.documentStatuses[del.doc] = "indexed"
  /\ \E d \in DOMAIN del.documentStatuses : del.documentStatuses[d] = "error"

\* C11: a click on the chat retry button calls askChat with the question of
\* the last POST /chat that was sent (the trimmed text of the most recent
\* question that passed validation) and, with a property selected, sends it
\* again; when no question has been sent yet the click changes nothing; and a
\* call of askChat that sends no request leaves the retry target as it was.
C11_RetryResendsLastQuestion ==
  [][/\ chat'.event = "retryChat" =>
          IF chat.lastSent = NoRequest
          THEN /\ ~chat'.called
               /\ Mark(chat', "none", <<>>) = Mark(Uncalled(chat), "none", <<>>)
          ELSE /\ chat'.called
               /\ chat'.argument = chat.lastSent.question
               /\ chat.activePropertyId # NoProp =>
                     chat'.request = [question |-> chat.lastSent.question,
                                      property_id |-> chat.activePropertyId]
     /\ (chat'.called /\ chat'.request = NoRequest) =>
            chat'.lastChatQuestion = chat.lastChatQuestion
     /\ chat'.lastChatQuestion = trim(chat'.lastChatQuestion)
     ]_vars

\* C11 (witness): the retry button has re-sent a question that was typed with
\* surrounding white space, after a blank question had been rejected.
C11_RetriedTrimmedQuestion ==
  /\ chat.event = "retryChat"
  /\ chat.request.question = <<"a">>
  /\ Len(chat.chatHistory) = 3
  /\ chat.chatHistory[1].text = <<"a">>

\* C12: once the effects of a step have run, the key 'ndiah_active_property_id'
\* holds String(activePropertyId), or is absent when activePropertyId is null;
\* and after a page load activePropertyId is the number the key held when the
\* page was opened, or null when there was no key or no finite number in it.
C12_ActivePropertyMirrored ==
  /\ chat.activeKey = IF chat.activePropertyId = NoProp THEN Absent
                      ELSE [text |-> "digits", number |-> chat.activePropertyId]
  /\ chat.event = "mount" =>
        chat.activePropertyId =
          IF "number" \in DOMAIN chat.keyAtMount THEN chat.keyAtMount.number ELSE NoProp

\* C12 (witness): the page was opened over a key that held a number in a form
\* String() does not produce, and the selection has since been cleared, which
\* removed the key.
C12_RestoredThenCleared ==
  /\ chat.event = "switch"
  /\ chat.keyAtMount = Spaced(NumProps)
  /\ chat.activePropertyId = NoProp
  /\ chat.activeKey = Absent

\* C13: when onDeleteAllDocuments has settled, no document whose DELETE
\* request succeeded is still listed or still has a documentStatuses entry,
\* also when some DELETE requests failed.
C13_DeletedDocumentsGone ==
  del.event = "settled" =>
    /\ del.deleted \cap del.documents = {}
    /\ del.deleted \cap DOMAIN del.documentStatuses = {}

\* The elements of a list of items.
Items(list) == {list[i] : i \in DOMAIN list}

\* C14: an item of the filtered timeline with a valid date d is in the current
\* section iff it is an info item with today-14 <= d <= today+7 or another
\* item with d >= today-14; an item with an unparseable date is in the archive.
C14_CurrentArchiveRule ==
  \A item \in Items(tl.filteredTimeline) :
    LET d == item.date_iso
        isInfo == item.category \notin {"meeting", "payment", "deadline", "tax"} IN
    IF d \in InvalidDates
    THEN item \in Items(tl.timelineArchiveItems) /\ item \notin Items(tl.timelineCurrentItems)
    ELSE item \in Items(tl.timelineCurrentItems)
           <=> \/ isInfo /\ -14 <= d /\ d <= 7
               \/ ~isInfo /\ -14 <= d

\* C15: every item of the archive section has a date strictly before today.
C15_ArchiveHoldsPastEvents ==
  \A item \in Items(tl.timelineArchiveItems) :
    item.date_iso \notin InvalidDates /\ item.date_iso < 0

\* C16 (as claimed): filteredTimeline holds exactly the items whose category
\* passes the category filter and for which the trimmed, lower-cased search
\* text is empty or occurs in the lower-cased title or in the lower-cased
\* description.
C16_SearchInTitleOrDescription ==
  LET lower(s) == [i \in DOMAIN s |-> IF s[i] = "A" THEN "a" ELSE IF s[i] = "B" THEN "b" ELSE s[i]]
      occurs(t, s) == \E i \in 1..(Len(s) - Len(t) + 1) : SubSeq(s, i, i + Len(t) - 1) = t
      q == lower(trim(tl.timelineSearch))
      passes(item) ==
        /\ tl.timelineCategory = "" \/ normalizeCategory(item.category) = tl.timelineCategory
        /\ q = <<>> \/ occurs(q, lower(item.title)) \/ occurs(q, lower(item.description))
  IN /\ Items(tl.filteredTimeline) = {item \in Items(tl.timelineItems) : passes(item)}
     /\ Len(tl.filteredTimeline) = Cardinality({i \in DOMAIN tl.timelineItems : passes(tl.timelineItems[i])})

\* C16 (amended): filteredTimeline holds exactly the items whose category
\* passes the category filter and for which the trimmed, lower-cased search
\* text is empty or occurs in the lower-cased text made of the title, one
\* blank and the description.
C16_SearchInTitleBlankDescription ==
  LET lower(s) == [i \in DOMAIN s |-> IF s[i] = "A" THEN "a" ELSE IF s[i] = "B" THEN "b" ELSE s[i]]
      occurs(t, s) == \E i \in 1..(Len(s) - Len(t) + 1) : SubSeq(s, i, i + Len(t) - 1) = t
      q == lower(trim(tl.timelineSearch))
      passes(item) ==
        /\ tl.timelineCategory = "" \/ normalizeCategory(item.category) = tl.timelineCategory
        /\ q = <<>> \/ occurs(q, lower(item.title) \o <<" ">> \o lower(item.description))
  IN /\ Items(tl.filteredTimeline) = {item \in Items(tl.timelineItems) : passes(item)}
     /\ Len(tl.filteredTimeline) = Cardinality({i \in DOMAIN tl.timelineItems : passes(tl.timelineItems[i])})

\* C16 (witness): with a search text in capitals and with a blank in front,
\* and the category filter set, one of two items has passed both filters.
C16_OneOfTwoPasses ==
  /\ tl.timelineSearch = <<" ", "B">>
  /\ tl.timelineCategory = "info"
  /\ Len(tl.timelineItems) = 2
  /\ Len(tl.filteredTimeline) = 1

\* C17: when the summary names the next deadline, the date named is the
\* earliest date, on or after today, of a deadline of the current section.
C17_NextDeadlineIsUpcoming ==
  LET upcoming == {item.date_iso : item \in
                     {x \in Items(tl.timelineCurrentItems) :
                        /\ normalizeCategory(x.category) = "deadline"
                        /\ x.date_iso \notin InvalidDates /\ x.date_iso >= 0}} IN
  tl.actionSummary.text = "Fristen stehen an" =>
    /\ upcoming # {}
    /\ \A d \in upcoming : tl.actionSummary.next <= d
    /\ tl.actionSummary.next \in upcoming

\* C18: the cold-start banner is turned on only by the first health check that
\* completes after the page has loaded, and a successful check leaves it off.
C18_BannerByFirstCheckOnly ==
  /\ hc.event = "bannerOn" => hc.completed = 1
  /\ hc.event = "ok" => ~hc.showColdStartBanner

\* C19: a call of askChat with a property selected and a question that is not
\* blank appends exactly one user message (the trimmed question) and sends one
\* request; the step in which that request settles appends exactly one
\* assistant message (the answer after success, 'Fehler: <message>' after a
\* failure) and leaves chatPending false and chatState 'success' or 'error';
\* a call with a blank question or without a property appends nothing and
\* sends nothing.
C19_OneReplyPerQuestion ==
  [][/\ chat'.called =>
          IF chat.activePropertyId # NoProp /\ trim(chat'.argument) # <<>>
          THEN /\ chat'.chatHistory =
                    Append(chat.chatHistory,
                           [role |-> "user", prop |-> chat.activePropertyId,
                            text |-> trim(chat'.argument)])
               /\ chat.request = NoRequest /\ chat'.request # NoRequest
               /\ chat'.chatPending
          ELSE /\ chat'.chatHistory = chat.chatHistory
               /\ chat'.request = chat.request
               /\ chat'.chatPending = chat.chatPending
     /\ chat'.event = "answer" =>
          /\ chat.request # NoRequest /\ chat'.request = NoRequest
          /\ Len(chat'.chatHistory) = Len(chat.chatHistory) + 1
          /\ SubSeq(chat'.chatHistory, 1, Len(chat.chatHistory)) = chat.chatHistory
          /\ chat'.chatHistory[Len(chat'.chatHistory)].role = "assistant"
          /\ ~chat'.chatPending
          /\ chat'.chatState \in {"success", "error"}
          /\ chat'.chatHistory[Len(chat'.chatHistory)].text.kind =
                IF chat'.chatState = "success" THEN "answer" ELSE "Fehler"
     /\ (~chat'.called /\ chat'.event # "answer") =>
            \/ chat'.chatHistory = chat.chatHistory
            \/ chat'.event = "switch"
     ]_vars

\* C19 (witness): a question has been answered with an error text, so that the
\* history holds the question and 'Fehler: <message>'.
C19_QuestionThenErrorReply ==
  /\ chat.event = "answer"
  /\ chat.chatState = "error"
  /\ ~chat.chatPending
  /\ Len(chat.chatHistory) = 2
  /\ chat.chatHistory[1].role = "user"
  /\ chat.chatHistory[2].text = [kind |-> "Fehler", message |-> "HTTP 500"]

\* C20: in the step in which onUpload has uploaded its last file and sets the
\* outcome, selectedFiles becomes empty when no item failed and stays as it
\* was otherwise, uploadState becomes 'error' iff at least one item failed,
\* and uploadPending becomes false.
C20_FilesKeptIffFailed ==
  [][gh'.event = "summary" =>
       /\ st'.selectedFiles = IF gh'.failedItems = 0 THEN <<>> ELSE st.selectedFiles
       /\ st'.uploadState = "error" <=> gh'.failedItems > 0
       /\ ~st'.uploadPending
    ]_vars

\* C20 (witness): an upload has ended with a failed item; the files are still
\* selected and the card shows the error.
C20_FailedUploadKeepsFiles ==
  /\ gh.event = "summary"
  /\ gh.failedItems > 0
  /\ st.selectedFiles # <<>>
  /\ st.uploadState = "error"
  /\ ~st.uploadPending

\* C7: in the step in which onUpload, having at least one processed document,
\* has reloaded the document list, a POST /timeline/rebuild is handed to
\* apiFetch (also when the document list was empty when the upload started).
C7_RebuildAfterUpload ==
  gh.event = "uploaded" => \E t \in BagToSet(tasks) : t.pc = "tl_rebuild"

\* C8: pollBackgroundZipProcessing never makes more than 12 reloads, and in the
\* step in which it stops (new documents found and the timeline call returned,
\* or attempts exhausted) uploadState is not "loading".
C8_PollingEndsFinal ==
  /\ \A t \in BagToSet(tasks) : t.pc = "poll" => t.attempt <= 12
  /\ gh.event = "pollStopped" => st.uploadState # "loading"

\* The files the notes and the upload card promise to accept: a PDF or a ZIP by
\* MIME type or by extension, of at most 20 MB.
Acceptable(f) ==
  /\ \/ f.type \in {"application/pdf", "application/zip", "application/x-zip-compressed"}
     \/ f.name.ext \in {"pdf", "PDF", "zip", "ZIP"}
  /\ f.size <= 20 * 1024 * 1024

Range(seq) == {seq[i] : i \in DOMAIN seq}
ErrorEntries(errors) == SelectSeq(errors, LAMBDA x : "name" \in DOMAIN x)
Unacceptable(b) == SelectSeq(b, LAMBDA f : ~Acceptable(f))

\* C9: every file in selectedFiles is a PDF or ZIP (by MIME type or extension)
\* of at most 20 MB, and an addFiles call leaves in uploadErrors exactly one
\* entry per offered file that is not, in order, and adds none of those files.
C9_OnlyPdfZipUpTo20MB ==
  /\ \A f \in Range(st.selectedFiles) : Acceptable(f)
  /\ gh.event = "addFiles" =>
       LET bad == Unacceptable(gh.offered)
           errs == ErrorEntries(st.uploadErrors)
       IN /\ Len(errs) = Len(bad)
          /\ \A i \in 1..Len(bad) : errs[i].name = bad[i].name
          /\ \A i \in 1..Len(bad) : bad[i] \notin Range(st.selectedFiles)

\* C9 (witness): while an upload is running, a batch of two files is dropped of
\* which one is rejected and one added to the file already selected.
C9_MixedBatchOffered ==
  /\ Len(ErrorEntries(st.uploadErrors)) = 1
  /\ \E i \in DOMAIN st.uploadErrors : "added" \in DOMAIN st.uploadErrors[i]
  /\ gh.event = "addFiles" /\ Len(gh.offered) = 2
  /\ Len(st.selectedFiles) = 2
  /\ st.uploadPending

\* C10 (as stated): a click on the retry button runs extractTimeline when the
\* timeline request started last was a raw-text extraction and rebuildTimeline
\* otherwise, and lastTimelineAction is the kind of that request.
C10_RetryFollowsLastRequest ==
  [][gh'.event = "retry" =>
       /\ st.lastTimelineAction = gh.lastStarted
       /\ RetryDid(gh.lastStarted, st')]_vars

\* C10 (amended): a click on the retry button runs extractTimeline when the
\* timeline function that last got past its guards was extractTimeline and
\* rebuildTimeline otherwise, and lastTimelineAction is the kind of that function.
C10_RetryFollowsLastAction ==
  [][gh'.event = "retry" =>
       /\ st.lastTimelineAction = gh.lastAction
       /\ RetryDid(gh.lastAction, st')]_vars

\* C10 (witness): the retry button has just repeated a raw-text extraction.
C10_RetriedExtraction ==
  gh.event = "retry" /\ gh.lastAction = "raw" /\ st.timelineMessage = "Extraktion laeuft..."

====
